---- MODULE Spec2Model ----
(***************************************************************************)
(* The vaccination dashboard of src/app.py as a state machine.             *)
(*                                                                         *)
(* One server process serves one browser session.  Every step of the       *)
(* session is one complete execution of the script: the memoized load of   *)
(* the CSV file, the sidebar radio, and the if/elif chain of page          *)
(* branches.  The environment may extend the CSV file on disk at any time. *)
(*                                                                         *)
(* Text is modelled as a sequence of character codes, a Timestamp as       *)
(* <<year, month, day>>, a DataFrame as a sequence of rows that carry the  *)
(* RangeIndex label in the field "index".  Charts are recorded by kind     *)
(* only; the selectboxes that pick a chart's column are left out.          *)
(***************************************************************************)
EXTENDS Integers, Sequences, FiniteSets, TLC

\* Longest CSV file (in data rows) the model explores.
MaxRows == 2

\* The dates and the daily_vaccinations values that occur in the CSV file.
Dates == {<<2021, 1, 30>>, <<2021, 2, 1>>}
DailyValues == {1000, 2000}
IsoCodes == {"LKA"}

\* Contents of bg_image.jpg (a static asset: start-of-image and APP0 marker).
BgImageFile == <<255, 216, 255, 224>>

Columns == <<"date", "iso_code", "daily_vaccinations">>
PageOptions == <<"Overview", "Visualizations", "Filters", "About">>
BranchLabels == <<"Overview", "Visualizations", "Filters", "About">>
PlotTypes == <<"Histogram", "Boxplot">>
DefaultThreshold == 1000
DefaultMinInput == 1000
MinInputFloor == 0
HeadRows == 5

VARIABLES
    csvFile,      \* slcoviddata1.csv on disk: a sequence of text rows
    cache,        \* st.cache_data's entry for load_data: <<>> or <<table>>
    loaded,       \* history: the file contents pd.read_csv has read, in order
    servedStale,  \* history: some run was served from the cache after the file changed
    session,      \* "new" | "first_run" | "interactive"
    page,         \* the sidebar radio's value
    widgets,      \* the values of the current page's widgets
    df,           \* the module-level df of the last run
    out,          \* what the last run rendered
    remembered    \* <<>> or <<an earlier run's inputs and output>>

vars == <<csvFile, cache, loaded, servedStale, session, page, widgets, df, out,
          remembered>>

-----------------------------------------------------------------------------
(* Text, dates and numbers *)

Digit(n) == 48 + n
Hyphen == <<45>>

Pad2(n) == <<Digit(n \div 10), Digit(n % 10)>>
Pad4(n) == <<Digit(n \div 1000), Digit((n \div 100) % 10),
             Digit((n \div 10) % 10), Digit(n % 10)>>

\* Timestamp.strftime('%Y-%m-%d')
strftime(ts) == Pad4(ts[1]) \o Hyphen \o Pad2(ts[2]) \o Hyphen \o Pad2(ts[3])

RECURSIVE ParseDigits(_, _)
ParseDigits(s, n) ==
    IF n = 0 THEN 0 ELSE ParseDigits(s, n - 1) * 10 + (s[n] - 48)

\* int(): the number a string of decimal digits denotes
ParseInt(s) == ParseDigits(s, Len(s))

RECURSIVE FormatInt(_)
FormatInt(n) ==
    IF n < 10 THEN <<Digit(n)>> ELSE FormatInt(n \div 10) \o <<Digit(n % 10)>>

\* A 'YYYY-MM-DD' string as a Timestamp: parse_dates, and the coercion pandas
\* applies when a datetime column is compared with a string.
to_datetime(s) ==
    <<ParseInt(<<s[1], s[2], s[3], s[4]>>), ParseInt(<<s[6], s[7]>>),
      ParseInt(<<s[9], s[10]>>)>>

\* Chronological order of Timestamps.
TsLeq(a, b) ==
    \/ a[1] < b[1]
    \/ a[1] = b[1] /\ a[2] < b[2]
    \/ a[1] = b[1] /\ a[2] = b[2] /\ a[3] <= b[3]

\* Lexicographic order of strings (Series.min / Series.max of an object column).
RECURSIVE StrLeq(_, _)
StrLeq(a, b) ==
    IF a = <<>> THEN TRUE
    ELSE IF b = <<>> THEN FALSE
    ELSE IF a[1] # b[1] THEN a[1] < b[1]
    ELSE StrLeq(Tail(a), Tail(b))

B64Char(n) ==
    IF n < 26 THEN 65 + n
    ELSE IF n < 52 THEN 97 + (n - 26)
    ELSE IF n < 62 THEN 48 + (n - 52)
    ELSE IF n = 62 THEN 43 ELSE 47

RECURSIVE b64encode(_)
b64encode(b) ==
    IF Len(b) = 0 THEN <<>>
    ELSE IF Len(b) = 1 THEN
        <<B64Char(b[1] \div 4), B64Char((b[1] % 4) * 16), 61, 61>>
    ELSE IF Len(b) = 2 THEN
        <<B64Char(b[1] \div 4), B64Char((b[1] % 4) * 16 + b[2] \div 16),
          B64Char((b[2] % 16) * 4), 61>>
    ELSE
        <<B64Char(b[1] \div 4), B64Char((b[1] % 4) * 16 + b[2] \div 16),
          B64Char((b[2] % 16) * 4 + b[3] \div 64), B64Char(b[3] % 64)>>
        \o b64encode(SubSeq(b, 4, Len(b)))

-----------------------------------------------------------------------------
(* The CSV file and the table *)

CsvRows == [date : {strftime(d) : d \in Dates},
            iso_code : IsoCodes,
            daily_vaccinations : DailyValues]

CsvFiles == UNION {[1..n -> CsvRows] : n \in 1..MaxRows}

\* pd.read_csv(..., parse_dates=["date"]): one row per line, a RangeIndex.
read_csv(file) ==
    [i \in 1..Len(file) |->
        [index |-> i - 1,
         date |-> to_datetime(file[i].date),
         iso_code |-> file[i].iso_code,
         daily_vaccinations |-> file[i].daily_vaccinations]]

\* @st.cache_data: load_data has no arguments, so the cache has one entry.
CacheNever == FALSE
CacheHit == cache # <<>>

\* load_data(): the table this run works on.
load_data == IF CacheHit THEN cache[1] ELSE read_csv(csvFile)

-----------------------------------------------------------------------------
(* Row selections: df[mask], df[columns], df.head() *)

Min(a, b) == IF a <= b THEN a ELSE b

head(d) == SubSeq(d, 1, Min(HeadRows, Len(d)))

\* df[df["iso_code"] == selected_iso]
IsoFrame(d, iso) == SelectSeq(d, LAMBDA r : r.iso_code = iso)

\* df[selected_cols]: every row, the chosen columns
ColsFrame(d, cols) ==
    [i \in 1..Len(d) |-> [c \in cols \cup {"index"} |-> d[i][c]]]

\* df[(df["date"] >= date_range[0]) & (df["date"] <= date_range[1])]
DateFrame(d, range) ==
    LET lo == to_datetime(range[1])
        hi == to_datetime(range[2])
    IN  SelectSeq(d, LAMBDA r : TsLeq(lo, r.date) /\ TsLeq(r.date, hi))

\* df[df["daily_vaccinations"] > t], sorted by value: a variant of AboveFrame
AboveFrameSorted(d, t) ==
    LET kept == SelectSeq(d, LAMBDA r : r.daily_vaccinations > t)
    IN  [i \in 1..Len(kept) |-> kept[Len(kept) + 1 - i]]

\* df[df["daily_vaccinations"] > t]
AboveFrame(d, t) == SelectSeq(d, LAMBDA r : r.daily_vaccinations > t)

\* DataFrame.to_csv(index=False): a header line, then one line per row
to_csv(d) ==
    <<Columns>> \o
    [i \in 1..Len(d) |->
        <<strftime(d[i].date), d[i].iso_code, FormatInt(d[i].daily_vaccinations)>>]

-----------------------------------------------------------------------------
(* Widgets *)

\* df["iso_code"].unique(): the values in order of first appearance
RECURSIVE unique(_)
unique(s) ==
    IF s = <<>> THEN <<>>
    ELSE LET front == unique(SubSeq(s, 1, Len(s) - 1))
             last == s[Len(s)]
         IN  IF \E i \in 1..Len(front) : front[i] = last
             THEN front ELSE Append(front, last)

IsoOptions(d) == unique([i \in 1..Len(d) |-> d[i].iso_code])

\* df["date"].dt.strftime('%Y-%m-%d').tolist(): the slider's options, in row order
SliderOptions(d) == [i \in 1..Len(d) |-> strftime(d[i].date)]

StrMin(s) == s[CHOOSE i \in 1..Len(s) : \A j \in 1..Len(s) : StrLeq(s[i], s[j])]
StrMax(s) == s[CHOOSE i \in 1..Len(s) : \A j \in 1..Len(s) : StrLeq(s[j], s[i])]

\* list.index: the first position of v
IndexOf(s, v) == CHOOSE i \in 1..Len(s) : s[i] = v /\ \A j \in 1..(i - 1) : s[j] # v

\* st.select_slider(options, value=(min, max)) before the user touches it: the
\* two values are looked up in the options and returned in option order.
SliderDefault(d) ==
    LET opts == SliderOptions(d)
        lo == IndexOf(opts, StrMin(opts))
        hi == IndexOf(opts, StrMax(opts))
    IN  IF lo > hi THEN <<opts[hi], opts[lo]>> ELSE <<opts[lo], opts[hi]>>

\* The ranges the user can drag the slider to: two option positions, in order.
SliderRanges(d) ==
    LET opts == SliderOptions(d)
    IN  {<<opts[p[1]], opts[p[2]]>> :
            p \in {q \in (1..Len(d)) \X (1..Len(d)) : q[1] <= q[2]}}

MaxDaily(d) ==
    LET i == CHOOSE k \in 1..Len(d) :
                 \A j \in 1..Len(d) : d[j].daily_vaccinations <= d[k].daily_vaccinations
    IN  d[i].daily_vaccinations

\* st.slider(label, 0, int(df["daily_vaccinations"].max()), 1000)
ThresholdValues(d) == {v \in {0} \cup DailyValues : v <= MaxDaily(d)}

\* st.number_input(label, min_value=0, value=1000)
MinInputValues == {v \in {0} \cup DailyValues : v >= MinInputFloor}

\* What each page's widgets return on the page's first run.
Defaults(p, d) ==
    IF p = "Overview" THEN [show_full |-> FALSE]
    ELSE IF p = "Visualizations" THEN
        [selected_iso |-> IsoOptions(d)[1],
         selected_cols |-> {},
         date_range |-> SliderDefault(d),
         threshold |-> DefaultThreshold]
    ELSE IF p = "Filters" THEN
        [min_input |-> DefaultMinInput, plot_type |-> PlotTypes[1]]
    ELSE <<>>

-----------------------------------------------------------------------------
(* The page branches *)

EmptyOutput ==
    [rendered |-> {}, style |-> <<>>, text |-> <<>>, plots |-> <<>>,
     frames |-> <<>>, chart_data |-> <<>>, download |-> <<>>]

RECURSIVE Flatten(_, _)
Flatten(parts, f) ==
    IF parts = <<>> THEN <<>> ELSE parts[1][f] \o Flatten(Tail(parts), f)

\* Streamlit appends each call's elements to the page, in call order.
Merge(parts) ==
    [rendered |-> UNION {parts[i].rendered : i \in 1..Len(parts)},
     style |-> Flatten(parts, "style"),
     text |-> Flatten(parts, "text"),
     plots |-> Flatten(parts, "plots"),
     frames |-> Flatten(parts, "frames"),
     chart_data |-> Flatten(parts, "chart_data"),
     download |-> Flatten(parts, "download")]

\* set_bg_from_local(image_file): the style block embeds the encoded image.
set_bg_from_local(image) == [EmptyOutput EXCEPT !.style = <<b64encode(image)>>]

\* df["daily_vaccinations"].idxmax(): the first row that holds the maximum
idxmax(d) ==
    CHOOSE k \in 1..Len(d) :
        /\ \A j \in 1..Len(d) : d[j].daily_vaccinations <= d[k].daily_vaccinations
        /\ \A j \in 1..(k - 1) : d[j].daily_vaccinations < d[k].daily_vaccinations

DateMin(d) == d[CHOOSE k \in 1..Len(d) : \A j \in 1..Len(d) : TsLeq(d[k].date, d[j].date)].date
DateMax(d) == d[CHOOSE k \in 1..Len(d) : \A j \in 1..Len(d) : TsLeq(d[j].date, d[k].date)].date

\* The text a Timestamp prints as: date, blank, 00:00:00
TimestampStr(ts) == strftime(ts) \o <<32, 48, 48, 58, 48, 48, 58, 48, 48>>

OverviewPage(d, w) ==
    Merge(<<set_bg_from_local(BgImageFile),
            [EmptyOutput EXCEPT
                !.rendered = {"Overview"},
                !.text = <<strftime(d[idxmax(d)].date),
                           strftime(DateMin(d)), strftime(DateMax(d))>>,
                !.plots = <<"line">>,
                !.frames = <<head(d)>> \o (IF w.show_full THEN <<d>> ELSE <<>>)]>>)

\* st.download_button(data=filtered_df.to_csv(index=False)), offering another table
DownloadShown(d, w) == to_csv(AboveFrame(d, w.threshold))

\* st.download_button(data=filtered_df.to_csv(index=False))
DownloadData(d, w) == to_csv(DateFrame(d, w.date_range))

VisualizationsPage(d, w) ==
    [EmptyOutput EXCEPT
        !.rendered = {"Visualizations"},
        !.text = <<TimestampStr(d[idxmax(d)].date), w.date_range[1], w.date_range[2]>>,
        !.plots = <<"histogram", "line", "scatter", "bar", "box", "line", "line_chart">>,
        !.frames = <<IsoFrame(d, w.selected_iso)>>
                   \o (IF w.selected_cols # {} THEN <<ColsFrame(d, w.selected_cols)>>
                       ELSE <<>>)
                   \o <<AboveFrame(d, w.threshold)>>,
        !.chart_data = <<DateFrame(d, w.date_range)>>,
        !.download = <<DownloadData(d, w)>>]

FiltersPage(d, w) ==
    [EmptyOutput EXCEPT
        !.rendered = {"Filters"},
        !.plots = <<IF w.plot_type = "Histogram" THEN "histogram" ELSE "box", "scatter">>,
        !.frames = <<AboveFrame(d, w.min_input)>>]

\* The About page, drawn over whatever style the previous run left behind
AboutPageKeepStyle == [EmptyOutput EXCEPT !.rendered = {"About"}, !.style = out.style]

AboutPage == [EmptyOutput EXCEPT !.rendered = {"About"}]

Body(i, d, w) ==
    IF i = 1 THEN OverviewPage(d, w)
    ELSE IF i = 2 THEN VisualizationsPage(d, w)
    ELSE IF i = 3 THEN FiltersPage(d, w)
    ELSE AboutPage

\* The chain with a misspelt label in its third test
TakenMisspelt(i, p) ==
    LET labels == <<"Overview", "Visualizations", "Filter", "About">>
    IN  p = labels[i] /\ \A j \in 1..(i - 1) : p # labels[j]

\* if / elif: branch i runs when its test holds and no earlier test did
Taken(i, p) == p = BranchLabels[i] /\ \A j \in 1..(i - 1) : p # BranchLabels[j]

\* The if/elif chain: what each of its branches contributes to the page
Chain(d, p, w) ==
    [i \in 1..Len(BranchLabels) |-> IF Taken(i, p) THEN Body(i, d, w) ELSE EmptyOutput]

\* The script with the background set before the page test
PageScriptStyled(d, p, w) == Merge(<<set_bg_from_local(BgImageFile)>> \o Chain(d, p, w))

\* Lines 45-275: everything the script renders after the load
PageScript(d, p, w) == Merge(Chain(d, p, w))

-----------------------------------------------------------------------------
(* The session *)

SameInputs(r) == r.df = df /\ r.page = page /\ r.widgets = widgets

\* One execution of the script with the radio at p and the page's widgets at w.
Script(p, w) ==
    /\ cache' = <<load_data>>
    /\ loaded' = IF CacheHit THEN loaded ELSE Append(loaded, csvFile)
    /\ servedStale' = (servedStale \/ (CacheHit /\ read_csv(csvFile) # load_data))
    /\ df' = load_data
    /\ page' = p
    /\ widgets' = w
    /\ out' = PageScript(load_data, p, w)
    /\ remembered' =
          IF remembered # <<>> /\ ~(/\ remembered[1].df = load_data
                                   /\ remembered[1].page = p
                                   /\ remembered[1].widgets = w)
          THEN <<[remembered[1] EXCEPT !.away = TRUE]>>
          ELSE remembered
    /\ UNCHANGED csvFile

Init ==
    /\ csvFile \in CsvFiles
    /\ cache = <<>>
    /\ loaded = <<>>
    /\ servedStale = FALSE
    /\ session = "new"
    /\ page = PageOptions[1]
    /\ widgets = Defaults(PageOptions[1], <<>>)
    /\ df = <<>>
    /\ out = EmptyOutput
    /\ remembered = <<>>

\* The browser connects: the script runs with every widget at its default.
FirstRun ==
    /\ session = "new"
    /\ session' = "first_run"
    /\ Script(page, Defaults(page, load_data))

\* The user picks another page in the sidebar radio.
SelectPage ==
    /\ session # "new"
    /\ session' = "interactive"
    /\ \E i \in 1..Len(PageOptions) :
          /\ PageOptions[i] # page
          /\ Script(PageOptions[i], Defaults(PageOptions[i], load_data))

\* The user reruns the script without changing anything.
Rerun ==
    /\ session # "new"
    /\ session' = "interactive"
    /\ Script(page, widgets)

ToggleShowFull ==
    /\ session # "new" /\ page = "Overview"
    /\ session' = "interactive"
    /\ Script(page, [widgets EXCEPT !.show_full = ~widgets.show_full])

SetIso ==
    /\ session # "new" /\ page = "Visualizations"
    /\ session' = "interactive"
    /\ \E i \in 1..Len(IsoOptions(df)) :
          Script(page, [widgets EXCEPT !.selected_iso = IsoOptions(df)[i]])

SetCols ==
    /\ session # "new" /\ page = "Visualizations"
    /\ session' = "interactive"
    /\ \E cols \in SUBSET {Columns[i] : i \in 1..Len(Columns)} :
          Script(page, [widgets EXCEPT !.selected_cols = cols])

SetDateRange ==
    /\ session # "new" /\ page = "Visualizations"
    /\ session' = "interactive"
    /\ \E range \in SliderRanges(df) :
          Script(page, [widgets EXCEPT !.date_range = range])

SetThreshold ==
    /\ session # "new" /\ page = "Visualizations"
    /\ session' = "interactive"
    /\ \E t \in ThresholdValues(df) :
          Script(page, [widgets EXCEPT !.threshold = t])

SetMinInput ==
    /\ session # "new" /\ page = "Filters"
    /\ session' = "interactive"
    /\ \E m \in MinInputValues :
          Script(page, [widgets EXCEPT !.min_input = m])

SetPlotType ==
    /\ session # "new" /\ page = "Filters"
    /\ session' = "interactive"
    /\ \E i \in 1..Len(PlotTypes) :
          Script(page, [widgets EXCEPT !.plot_type = PlotTypes[i]])

\* The environment appends a record to the CSV file on disk.
AppendCsv ==
    /\ Len(csvFile) < MaxRows
    /\ \E row \in CsvRows : csvFile' = Append(csvFile, row)
    /\ UNCHANGED <<cache, loaded, servedStale, session, page, widgets, df, out,
                   remembered>>

\* Observer: keep the last run's inputs and output for a later comparison.
Remember ==
    /\ session # "new"
    /\ remembered = <<>>
    /\ remembered' = <<[df |-> df, page |-> page, widgets |-> widgets,
                        out |-> out, away |-> FALSE]>>
    /\ UNCHANGED <<csvFile, cache, loaded, servedStale, session, page, widgets,
                   df, out>>

UserStep ==
    \/ FirstRun \/ SelectPage \/ Rerun \/ ToggleShowFull
    \/ SetIso \/ SetCols \/ SetDateRange \/ SetThreshold
    \/ SetMinInput \/ SetPlotType

Next == UserStep \/ AppendCsv

Spec == Init /\ [][Next]_vars

\* The files the comparison of runs starts from: MaxRows records whose daily
\* values alternate, in every order of dates.
CompareFiles ==
    {f \in CsvFiles :
        /\ Len(f) = MaxRows
        /\ \A i \in 1..Len(f) :
              f[i].daily_vaccinations =
                  IF i % 2 = 1 THEN DefaultThreshold ELSE 2 * DefaultThreshold}

InitCompare == Init /\ csvFile \in CompareFiles

NextCompare == UserStep \/ Remember

SpecCompare == InitCompare /\ [][NextCompare]_vars

-----------------------------------------------------------------------------
(* Properties *)

Ran == session # "new"

StripIndex(d) ==
    [i \in 1..Len(d) |->
        [date |-> d[i].date, iso_code |-> d[i].iso_code,
         daily_vaccinations |-> d[i].daily_vaccinations]]

\* The rows a CSV text holds, read the way read_csv reads them.
ReadBack(csv) ==
    [i \in 1..(Len(csv) - 1) |->
        [date |-> to_datetime(csv[i + 1][1]),
         iso_code |-> csv[i + 1][2],
         daily_vaccinations |-> ParseInt(csv[i + 1][3])]]

\* frame holds rows of d, each once at most, in d's order, with d's values.
IsSelection(frame, d) ==
    /\ \A i \in 1..Len(frame) :
          /\ frame[i].index + 1 \in 1..Len(d)
          /\ \A c \in DOMAIN frame[i] : frame[i][c] = d[frame[i].index + 1][c]
    /\ \A i \in 1..(Len(frame) - 1) : frame[i].index < frame[i + 1].index

RECURSIVE IsSubsequence(_, _)
IsSubsequence(a, b) ==
    IF a = <<>> THEN TRUE
    ELSE IF b = <<>> THEN FALSE
    ELSE IF a[1] = b[1] THEN IsSubsequence(Tail(a), Tail(b))
    ELSE IsSubsequence(a, Tail(b))

\* C1: every run renders exactly one page branch, the one the sidebar radio
\* names, and the first run of a session renders Overview.
C1_OnePagePerRun ==
    Ran => /\ \E i \in 1..Len(PageOptions) : page = PageOptions[i]
           /\ out.rendered = {page}
           /\ (session = "first_run" => out.rendered = {"Overview"})

C1_Witness ==
    session = "interactive" /\ page = "Filters" /\ out.rendered = {"Filters"}

\* C2: over any sequence of reruns the CSV file is read at most once, and every
\* run works on the table read in the first run.
C2_ReadOnce ==
    /\ Len(loaded) <= 1
    /\ Ran => Len(loaded) = 1 /\ df = read_csv(loaded[1])

C2_Witness ==
    session = "interactive" /\ servedStale /\ read_csv(csvFile) # df

\* C3: df stays the table that was loaded, and every table a run displays or
\* offers for download holds rows of df in df's order.
C3_DfIntact ==
    Ran => /\ df = read_csv(loaded[1])
           /\ cache = <<df>>
           /\ \A i \in 1..Len(out.frames) : IsSelection(out.frames[i], df)
           /\ \A i \in 1..Len(out.chart_data) : IsSelection(out.chart_data[i], df)
           /\ \A i \in 1..Len(out.download) :
                 /\ out.download[i][1] = Columns
                 /\ IsSubsequence(ReadBack(out.download[i]), StripIndex(df))

C3_Witness ==
    /\ session = "interactive" /\ page = "Visualizations"
    /\ widgets.selected_cols # {}
    /\ Len(out.chart_data[1]) = 1 /\ Len(df) = MaxRows
    /\ Len(out.frames[Len(out.frames)]) = 1
    /\ out.frames[Len(out.frames)] # out.chart_data[1]

C5_MinimumIsInclusive ==
    (Ran /\ page = "Filters") =>
        out.frames[1] =
            SelectSeq(df, LAMBDA r : r.daily_vaccinations >= widgets.min_input)

\* C6: the date slider's first endpoint is never later than its second, the
\* chart shows exactly the rows between them, and the default range selects
\* every row, whatever the row order of the table.
C6_DateRangeChronological ==
    (Ran /\ page = "Visualizations") =>
        LET lo == to_datetime(widgets.date_range[1])
            hi == to_datetime(widgets.date_range[2])
        IN  /\ TsLeq(lo, hi)
            /\ out.chart_data[1] =
                   SelectSeq(df, LAMBDA r : TsLeq(lo, r.date) /\ TsLeq(r.date, hi))
            /\ (widgets.date_range = SliderDefault(df) => out.chart_data[1] = df)

\* C7: the download holds exactly the rows of the date-filtered table, which
\* the date range alone decides: not the ISO code, the columns or the threshold.
C7_DownloadIsDateFiltered ==
    (Ran /\ page = "Visualizations") =>
        /\ Len(out.download) = 1
        /\ out.download[1][1] = Columns
        /\ ReadBack(out.download[1]) = StripIndex(out.chart_data[1])
        /\ out.chart_data[1] = DateFrame(df, widgets.date_range)

C7_Witness ==
    /\ session = "interactive" /\ page = "Visualizations"
    /\ widgets.selected_cols # {}
    /\ widgets.threshold # DefaultThreshold
    /\ Len(out.download[1]) = 2
    /\ out.frames[Len(out.frames)] # out.chart_data[1]

\* C8: a run emits the background style if and only if its page is Overview.
C8_BackgroundOnlyOnOverview ==
    Ran => (out.style # <<>> <=> page = "Overview")

C8_Witness ==
    /\ session = "interactive" /\ page = "Visualizations" /\ out.style = <<>>
    /\ out.rendered = {"Visualizations"}

====
